---------------------------- MODULE Spec2Model ----------------------------
(***************************************************************************)
(* Model of the RUC filter (FiltroService.procesarRUC), of the DNI        *)
(* comparison (POST /api/comparar-dnis, ComparacionDNIService), of the     *)
(* name formatter (formatearNombre) and of the filter endpoints of         *)
(* server.js (POST /api/filtrar-ruc, POST /api/filtrar-rucs-batch).        *)
(*                                                                         *)
(* JavaScript strings are sequences of one-character strings; an object    *)
(* is a record that has exactly the fields the code gave it, so a field    *)
(* the code never set is absent (undefined) and reads as falsy.            *)
(***************************************************************************)
EXTENDS Integers, Sequences, FiniteSets, TLC

VARIABLES
  \* ---- FiltroService.procesarRUC (one call) ----
  pc,            \* position of the call: idle, fetching, lookup, sleeping, returned
  resultado,     \* the `resultado` object of procesarRUC
  datosSunat,    \* settled outcome of sunatScraper.buscarPorRUC, or Pending
  datosOsce,     \* settled outcome of osceScraper.buscarPorRUC, or Pending
  resultados,    \* the `resultados` array of validarMultiplesDNIs
  lookups,       \* ids buscarDNI was invoked with, in call order (procesarRUC)
  fallidos,      \* ids for which buscarDNI threw (procesarRUC)
  adapterCalls,  \* org ids both buscarPorRUC were invoked with, in call order
  \* ---- POST /api/comparar-dnis ----
  cpc,           \* position of the request: idle, lookup, done
  body,          \* req.body.dnis
  dnisUnicos,    \* the argument given to compararDNIs
  comparacion,   \* the `resultado` object of compararDNIs
  clookups,      \* ids buscarDNI was invoked with, in call order (comparison)
  response,      \* the HTTP response sent
  \* ---- formatearNombre ----
  npc,           \* idle, called, once, twice
  nombre,        \* the argument
  util1, util2,  \* utils/formatNombre applied once / twice
  osce1, osce2,  \* the formatearNombre copy of osceScraper.js applied once / twice
  \* ---- POST /api/filtrar-ruc, POST /api/filtrar-rucs-batch ----
  spc,           \* position of the request: idle, single, batch, done
  sbody,         \* req.body
  bresultados,   \* the `resultados` array of procesarMultiplesRUCs
  llamadas,      \* org ids procesarRUC was invoked with, in call order
  socket,        \* the connection of the request: open, destroyed
  sresponse,     \* the HTTP response the caller received
  \* ---- two procesarRUC calls in flight at once ----
  dpc,           \* position of each call: idle, fetching, lookup, sleeping, returned
  marco,         \* the locals `resultado` and `resultados` of each call
  recibido,      \* what each call was given: its argument and the responses
  devuelto,      \* what each call returned
  \* ---- FiltroService.generarReporte ----
  lote,          \* the argument
  reporte        \* the value returned

filtroVars == <<pc, resultado, datosSunat, datosOsce, resultados, lookups, fallidos,
                adapterCalls>>
cmpVars    == <<cpc, body, dnisUnicos, comparacion, clookups, response>>
nombreVars == <<npc, nombre, util1, util2, osce1, osce2>>
servidorVars == <<spc, sbody, bresultados, llamadas, socket, sresponse>>
dosVars    == <<dpc, marco, recibido, devuelto>>
reporteVars == <<lote, reporte>>
vars       == <<filtroVars, cmpVars, nombreVars, servidorVars, dosVars, reporteVars>>

-----------------------------------------------------------------------------
(* Bounds *)

\* longest name given to formatearNombre
MaxNombreLen == 6

-----------------------------------------------------------------------------
(* JavaScript string primitives, as the code uses them *)

\* characters of a display name: a lower-case letter, an upper-case letter,
\* white space and the comma
NombreChars == {"a", "B", " ", ","}

\* all sequences over S of length at most n
SeqsUpTo(S, n) == UNION {[1..k -> S] : k \in 0..n}

\* String.prototype.toUpperCase
ToUpperCase(s) == [i \in 1..Len(s) |-> IF s[i] = "a" THEN "A" ELSE s[i]]

RECURSIVE TrimStart(_)
TrimStart(s) == IF s # <<>> /\ Head(s) = " " THEN TrimStart(Tail(s)) ELSE s

RECURSIVE TrimEnd(_)
TrimEnd(s) ==
  IF s # <<>> /\ s[Len(s)] = " " THEN TrimEnd(SubSeq(s, 1, Len(s) - 1)) ELSE s

\* String.prototype.trim
Trim(s) == TrimEnd(TrimStart(s))

\* s.replace(/c+/g, c): every run of the character c becomes one c
RECURSIVE CollapseRuns(_, _)
CollapseRuns(s, c) ==
  IF Len(s) < 2 THEN s
  ELSE IF s[1] = c /\ s[2] = c THEN CollapseRuns(Tail(s), c)
  ELSE <<s[1]>> \o CollapseRuns(Tail(s), c)

\* String.prototype.split(c) for a one-character separator: "" gives [""]
RECURSIVE Split(_, _)
Split(s, c) ==
  IF \A i \in 1..Len(s) : s[i] # c THEN <<s>>
  ELSE LET k == CHOOSE i \in 1..Len(s) :
                  s[i] = c /\ \A j \in 1..(i - 1) : s[j] # c
       IN <<SubSeq(s, 1, k - 1)>> \o Split(SubSeq(s, k + 1, Len(s)), c)

\* Array.prototype.join(sep)
RECURSIVE Join(_, _)
Join(parts, sep) ==
  IF parts = <<>> THEN <<>>
  ELSE IF Len(parts) = 1 THEN parts[1]
  ELSE parts[1] \o sep \o Join(Tail(parts), sep)

\* parts.map(parte => parte.trim()).filter(parte => parte.length > 0)
RECURSIVE TrimmedNonEmpty(_)
TrimmedNonEmpty(parts) ==
  IF parts = <<>> THEN <<>>
  ELSE LET p == Trim(parts[1])
       IN (IF Len(p) > 0 THEN <<p>> ELSE <<>>) \o TrimmedNonEmpty(Tail(parts))

-----------------------------------------------------------------------------
(* formatearNombre *)

\* the tail both copies share: insert ", " after the first two words
ApellidosNombres(nombreLimpio) ==
  LET palabras == Split(nombreLimpio, " ")
  IN IF Len(palabras) <= 2 THEN nombreLimpio
     ELSE Join(SubSeq(palabras, 1, 2), <<" ">>) \o <<",", " ">>
          \o Join(SubSeq(palabras, 3, Len(palabras)), <<" ">>)

\* utils/formatNombre.js
formatearNombre(nombreCompleto) ==
  IF nombreCompleto = <<>> THEN nombreCompleto
  ELSE LET nombreLimpio ==
             CollapseRuns(CollapseRuns(Trim(ToUpperCase(nombreCompleto)), " "), ",")
       IN IF \E i \in 1..Len(nombreLimpio) : nombreLimpio[i] = ","
          THEN Join(TrimmedNonEmpty(Split(nombreLimpio, ",")), <<",", " ">>)
          ELSE ApellidosNombres(nombreLimpio)

\* the copy of formatearNombre at the end of osceScraper.js (no comma branch)
formatearNombreOsce(nombreCompleto) ==
  IF nombreCompleto = <<>> THEN nombreCompleto
  ELSE ApellidosNombres(CollapseRuns(Trim(ToUpperCase(nombreCompleto)), " "))

NombreIdle ==
  /\ npc = "idle" /\ nombre = <<>>
  /\ util1 = <<>> /\ util2 = <<>> /\ osce1 = <<>> /\ osce2 = <<>>

\* a caller picks a display name
NombreCall ==
  /\ npc = "idle"
  /\ \E x \in SeqsUpTo(NombreChars, MaxNombreLen) : nombre' = x
  /\ npc' = "called"
  /\ UNCHANGED <<util1, util2, osce1, osce2, filtroVars, cmpVars,
                 servidorVars, dosVars, reporteVars>>

\* both copies are applied to the name
NombreFormat ==
  /\ npc = "called"
  /\ util1' = formatearNombre(nombre)
  /\ osce1' = formatearNombreOsce(nombre)
  /\ npc' = "once"
  /\ UNCHANGED <<nombre, util2, osce2, filtroVars, cmpVars,
                 servidorVars, dosVars, reporteVars>>

\* both copies are applied to their own output
NombreFormatAgain ==
  /\ npc = "once"
  /\ util2' = formatearNombre(util1)
  /\ osce2' = formatearNombreOsce(osce1)
  /\ npc' = "twice"
  /\ UNCHANGED <<nombre, util1, osce1, filtroVars, cmpVars,
                 servidorVars, dosVars, reporteVars>>

NombreNext == NombreCall \/ NombreFormat \/ NombreFormatAgain

-----------------------------------------------------------------------------
(* Identifiers *)

\* number of distinct person ids the source adapters can report
NumDnisRuc == 2

\* most representatives one source adapter reports
MaxReps == 2

Digitos == {"0", "1", "2", "3", "4", "5", "6", "7", "8", "9"}

DigitoDe(k) == <<"1", "2", "3", "4", "5", "6", "7", "8", "9">>[k]

\* the k-th person id: eight times the digit k
DniId(k) ==
  <<"11111111", "22222222", "33333333", "44444444", "55555555",
    "66666666", "77777777", "88888888", "99999999">>[k]

\* a person id that is not 8 digits
DniMalformado == "1111111"

\* org ids given to procesarRUC: a legal entity, the same digits after a
\* space, and malformed ones (prefix outside the whitelist, 10 digits, a
\* letter, empty)
RucValido == "20000000000"
RucConEspacio == " 20000000000"
RucInputs ==
  {RucValido, RucConEspacio, "30000000000", "2000000000", "2000000000x", ""}

\* two more org ids, a natural person and a legal entity, for the requests
\* to the server
RucLoteA == "10000000001"
RucLoteB == "20000000002"

\* the characters of the identifiers above
Caracteres(s) ==
  IF \E k \in 1..9 : s = DniId(k)
  THEN [i \in 1..8 |-> DigitoDe(CHOOSE k \in 1..9 : s = DniId(k))]
  ELSE CASE s = DniMalformado -> [i \in 1..7 |-> "1"]
         [] s = "20000000000" -> <<"2", "0">> \o [i \in 1..9 |-> "0"]
         [] s = " 20000000000" -> <<" ", "2", "0">> \o [i \in 1..9 |-> "0"]
         [] s = "10000000001" -> <<"1", "0">> \o [i \in 1..8 |-> "0"] \o <<"1">>
         [] s = "20000000002" -> <<"2", "0">> \o [i \in 1..8 |-> "0"] \o <<"2">>
         [] s = "30000000000" -> <<"3", "0">> \o [i \in 1..9 |-> "0"]
         [] s = "2000000000" -> <<"2", "0">> \o [i \in 1..8 |-> "0"]
         [] s = "2000000000x" -> <<"2", "0">> \o [i \in 1..8 |-> "0"] \o <<"x">>
         [] s = "" -> <<>>

\* /^\d{n}$/.test(s), s given by its characters
SoloDigitos(s, n) == Len(s) = n /\ \A i \in 1..n : s[i] \in Digitos

PrefijosValidos == {<<"1", "0">>, <<"1", "5">>, <<"1", "7">>, <<"2", "0">>}

\* FiltroService.validarFormatoRUC
validarFormatoRUC(ruc) ==
  IF ruc = "" THEN [valido |-> FALSE, mensaje |-> <<"El RUC es requerido">>]
  ELSE LET rucLimpio == Trim(Caracteres(ruc))
       IN IF ~SoloDigitos(rucLimpio, 11)
          THEN [valido |-> FALSE,
                mensaje |-> <<"El RUC debe tener exactamente 11 digitos numericos">>]
          ELSE IF SubSeq(rucLimpio, 1, 2) \notin PrefijosValidos
          THEN [valido |-> FALSE,
                mensaje |-> <<"El RUC debe comenzar con 10, 15, 17, o 20">>]
          ELSE [valido |-> TRUE, mensaje |-> <<>>]

-----------------------------------------------------------------------------
(* Array helpers *)

\* Array.prototype.includes
Includes(arr, x) == \E i \in 1..Len(arr) : arr[i] = x

\* Unicos leaving the repeated entries in
UnicosSinQuitar(arr) == arr

\* [...new Set(arr)]: first occurrences, in order
RECURSIVE Unicos(_)
Unicos(arr) ==
  IF arr = <<>> THEN <<>>
  ELSE LET r == Unicos(SubSeq(arr, 1, Len(arr) - 1))
           x == arr[Len(arr)]
       IN IF Includes(r, x) THEN r ELSE Append(r, x)

\* the set of elements of an array
Elems(arr) == {arr[i] : i \in 1..Len(arr)}

\* arr.map(r => r.dni)
DnisDe(arr) == [i \in 1..Len(arr) |-> arr[i].dni]

-----------------------------------------------------------------------------
(* The collaborators: source adapters and relationship lookup *)

Null == [null |-> TRUE]
Pending == [status |-> "pending"]
Rejected == [status |-> "rejected"]
Fulfilled(v) == [status |-> "fulfilled", value |-> v]

\* display names a registry reports: none, or three lower-case words
RepNombres == {<<>>, <<"a", " ", "a", " ", "a">>}

Representantes ==
  [dni : {DniId(k) : k \in 1..NumDnisRuc}, nombre : RepNombres]

\* SunatScraperPlaywright.buscarPorRUC: one representative per table row
\* (a person can hold several rows), dnis is the de-duplicated id column
SunatValues ==
  { [razonSocial |-> "RS SUNAT", representantes |-> reps,
     dnis |-> Unicos(DnisDe(reps))] :
      reps \in SeqsUpTo(Representantes, MaxReps) }

\* OsceScraper.buscarPorRUC: representatives come out of a Map keyed by dni
OsceValues ==
  { [razonSocial |-> "RS OSCE", representantes |-> reps, dnis |-> DnisDe(reps)] :
      reps \in { r \in SeqsUpTo(Representantes, MaxReps) :
                   \A i, j \in 1..Len(r) : r[i].dni = r[j].dni => i = j } }

\* what a buscarPorRUC promise settles to
SunatOutcomes == {Rejected} \cup {Fulfilled(v) : v \in SunatValues}
OsceOutcomes  == {Rejected} \cup {Fulfilled(v) : v \in OsceValues}

\* the registries hold every mix of representatives for RucValido only; for
\* any other org id OSCE fails, and SUNAT fails or reports the first n person
\* ids, each once and named: one id, or for RucLoteB one or two
SunatConRepresentantes(n) ==
  Fulfilled([razonSocial |-> "RS SUNAT",
             representantes |-> [k \in 1..n |->
                                   [dni |-> DniId(k),
                                    nombre |-> <<"a", " ", "a", " ", "a">>]],
             dnis |-> [k \in 1..n |-> DniId(k)]])
SunatOutcomesDe(ruc) ==
  IF ruc = RucValido THEN SunatOutcomes
  ELSE IF ruc = RucLoteB
  THEN {Rejected, SunatConRepresentantes(1), SunatConRepresentantes(2)}
  ELSE {Rejected, SunatConRepresentantes(1)}
OsceOutcomesDe(ruc) ==
  IF ruc = RucValido THEN OsceOutcomes ELSE {Rejected}

Throws == [throws |-> TRUE]

\* EjzagetroScraper.buscarDNI(dni): throws, or returns the scraped record.
\* Not found leaves every field at its default; a PARENTESCO row other than
\* NINGUNO sets esFamiliar; dniFamiliar is the second 8-digit token of the
\* page, if any. (Names and the raw page text are not modelled.)
BuscarDNIOutcomes(dni, parentescos, familiares) ==
  {Throws}
  \cup {[dni |-> dni, encontrado |-> FALSE, esFamiliar |-> FALSE,
         parentesco |-> "", dniFamiliar |-> ""]}
  \cup {[dni |-> dni, encontrado |-> TRUE, esFamiliar |-> FALSE,
         parentesco |-> "NINGUNO", dniFamiliar |-> ""]}
  \cup {[dni |-> dni, encontrado |-> TRUE, esFamiliar |-> TRUE,
         parentesco |-> p, dniFamiliar |-> f] :
           p \in parentescos, f \in familiares \cup {""}}

\* EntradaError without its error flag
EntradaErrorSinMarca(dni) == [dni |-> dni, mensaje |-> "lookup failed"]

\* the entry validarMultiplesDNIs pushes when buscarDNI throws
EntradaError(dni) == [dni |-> dni, error |-> TRUE, mensaje |-> "lookup failed"]

\* v.esFamiliar / v.encontrado read as a condition (an absent field is falsy)
EsFamiliar(v) == "esFamiliar" \in DOMAIN v /\ v.esFamiliar
Encontrado(v) == "encontrado" \in DOMAIN v /\ v.encontrado
EsError(v) == "error" \in DOMAIN v /\ v.error

-----------------------------------------------------------------------------
(* FiltroService.procesarRUC *)

\* the `resultado` object procesarRUC starts from (the timestamp is left out)
NuevoResultado(ruc) ==
  [ruc |-> ruc, aprobado |-> TRUE, razonSocial |-> "",
   dnisTotales |-> <<>>, dnisConFamiliares |-> <<>>, dnisAprobados |-> <<>>,
   motivoRechazo |-> <<>>, detallesSunat |-> Null, detallesOsce |-> Null,
   validacionesDNI |-> <<>>, personasDetalladas |-> <<>>]

MotivoSinDatos == <<"RUC no encontrado o no registrado en SUNAT/OSCE">>
MotivoFamiliares(n) == <<"Se encontraron ", n, " DNI(s) con familiares registrados">>

\* AgregarUnicos pushing every dni, seen or not
AgregarTodos(total, dnis) == total \o dnis

\* dnis.forEach(dni => { if (!total.includes(dni)) total.push(dni) })
RECURSIVE AgregarUnicos(_, _)
AgregarUnicos(total, dnis) ==
  IF dnis = <<>> THEN total
  ELSE AgregarUnicos(IF Includes(total, Head(dnis)) THEN total
                     ELSE Append(total, Head(dnis)), Tail(dnis))

\* ProcesarDatos reading the OSCE outcome only when SUNAT succeeded
ProcesarDatosTrasSunat(r, sunat, osce) ==
  IF sunat.status # "fulfilled" THEN r
  ELSE LET r1 == [r EXCEPT !.detallesSunat = sunat.value,
                           !.razonSocial = sunat.value.razonSocial,
                           !.dnisTotales = r.dnisTotales \o sunat.value.dnis]
       IN IF osce.status = "fulfilled"
          THEN [r1 EXCEPT !.detallesOsce = osce.value,
                          !.dnisTotales = AgregarUnicos(r1.dnisTotales,
                                                        osce.value.dnis)]
          ELSE r1

\* lines 754-777: what the two settled outcomes leave in resultado
ProcesarDatos(r, sunat, osce) ==
  LET r1 == IF sunat.status = "fulfilled"
            THEN [r EXCEPT !.detallesSunat = sunat.value,
                           !.razonSocial = sunat.value.razonSocial,
                           !.dnisTotales = r.dnisTotales \o sunat.value.dnis]
            ELSE r
  IN IF osce.status = "fulfilled"
     THEN [r1 EXCEPT !.detallesOsce = osce.value,
                     !.razonSocial = IF r1.razonSocial = ""
                                     THEN osce.value.razonSocial
                                     ELSE r1.razonSocial,
                     !.dnisTotales = AgregarUnicos(r1.dnisTotales, osce.value.dnis)]
     ELSE r1

\* rep.nombre ? formatearNombre(rep.nombre) : rep.nombre
NombreDe(rep) == IF rep.nombre # <<>> THEN formatearNombre(rep.nombre) ELSE rep.nombre

\* position of key in a Map kept as the array of its values (0: absent)
MapIndex(m, dni) ==
  IF \E i \in 1..Len(m) : m[i].dni = dni
  THEN CHOOSE i \in 1..Len(m) : m[i].dni = dni
  ELSE 0

\* Map.prototype.set: a present key keeps its place and takes the new value
MapSet(m, v) ==
  IF MapIndex(m, v.dni) = 0 THEN Append(m, v)
  ELSE [m EXCEPT ![MapIndex(m, v.dni)] = v]

\* lines 793-802: every SUNAT representative is set into the map
RECURSIVE PersonasSunat(_, _, _)
PersonasSunat(m, reps, razonSocial) ==
  IF reps = <<>> THEN m
  ELSE PersonasSunat(
         MapSet(m, [dni |-> Head(reps).dni, nombre |-> NombreDe(Head(reps)),
                    fuentes |-> <<"SUNAT">>, razonSocial |-> razonSocial]),
         Tail(reps), razonSocial)

\* lines 805-822: an OSCE representative joins the entry of its dni, and
\* gives it a name only when the entry has none; otherwise it is added
RECURSIVE PersonasOsce(_, _, _)
PersonasOsce(m, reps, razonSocial) ==
  IF reps = <<>> THEN m
  ELSE LET rep == Head(reps)
           i == MapIndex(m, rep.dni)
           m1 == IF i # 0
                 THEN [m EXCEPT ![i] =
                         [@ EXCEPT !.fuentes = Append(@, "OSCE"),
                                   !.nombre = IF m[i].nombre = <<>> /\ rep.nombre # <<>>
                                              THEN formatearNombre(rep.nombre)
                                              ELSE @]]
                 ELSE Append(m, [dni |-> rep.dni, nombre |-> NombreDe(rep),
                                 fuentes |-> <<"OSCE">>, razonSocial |-> razonSocial])
       IN PersonasOsce(m1, Tail(reps), razonSocial)

\* lines 789-824: Array.from(personasMap.values())
PersonasDetalladas(r) ==
  LET m1 == IF r.detallesSunat # Null
            THEN PersonasSunat(<<>>, r.detallesSunat.representantes,
                               r.detallesSunat.razonSocial)
            ELSE <<>>
  IN IF r.detallesOsce # Null
     THEN PersonasOsce(m1, r.detallesOsce.representantes, r.detallesOsce.razonSocial)
     ELSE m1

\* lines 833-838: the first persona with the dni takes the fields of the
\* validation (a field the validation lacks stays absent)
AnotarPersona(personas, v) ==
  LET i == MapIndex(personas, v.dni)
  IN IF i = 0 THEN personas
     ELSE [personas EXCEPT ![i] =
             [f \in (DOMAIN @) \cup ({"esFamiliar", "encontrado"} \cap DOMAIN v) |->
                IF f \in {"esFamiliar", "encontrado"} THEN v[f] ELSE @[f]]]

\* AnalizarUna leaving out a validation that carries the error flag
AnalizarUnaSinErrores(r, v) ==
  IF EsError(v) THEN r
  ELSE [r EXCEPT !.personasDetalladas = AnotarPersona(@, v),
                 !.dnisConFamiliares = IF EsFamiliar(v) THEN Append(@, v.dni) ELSE @,
                 !.dnisAprobados = IF EsFamiliar(v) THEN @ ELSE Append(@, v.dni)]

\* lines 831-845, one validation
AnalizarUna(r, v) ==
  [r EXCEPT !.personasDetalladas = AnotarPersona(@, v),
            !.dnisConFamiliares = IF EsFamiliar(v) THEN Append(@, v.dni) ELSE @,
            !.dnisAprobados = IF EsFamiliar(v) THEN @ ELSE Append(@, v.dni)]

\* lines 831-845: validacionesDNI.forEach
RECURSIVE Analizar(_, _)
Analizar(r, validaciones) ==
  IF validaciones = <<>> THEN r
  ELSE Analizar(AnalizarUna(r, Head(validaciones)), Tail(validaciones))

\* Aprobacion rejecting only from the second family id on
AprobacionDesdeDos(r) ==
  IF Len(r.dnisConFamiliares) > 1
  THEN [r EXCEPT !.aprobado = FALSE,
                 !.motivoRechazo = MotivoFamiliares(Len(r.dnisConFamiliares))]
  ELSE [r EXCEPT !.aprobado = TRUE]

\* lines 847-853
Aprobacion(r) ==
  IF Len(r.dnisConFamiliares) > 0
  THEN [r EXCEPT !.aprobado = FALSE,
                 !.motivoRechazo = MotivoFamiliares(Len(r.dnisConFamiliares))]
  ELSE [r EXCEPT !.aprobado = TRUE]

\* Decidir analysing all validations but the first
DecidirSinPrimera(r, validaciones) ==
  Aprobacion(Analizar([r EXCEPT !.validacionesDNI = validaciones],
                      Tail(validaciones)))

\* lines 828-863, from the return of validarMultiplesDNIs on
Decidir(r, validaciones) ==
  Aprobacion(Analizar([r EXCEPT !.validacionesDNI = validaciones], validaciones))

NotStarted == [status |-> "not started"]

\* what the relationship registry answers in a procesarRUC run: one relation
\* label, and no second id on the page
BuscarDNIFiltro(dni) == BuscarDNIOutcomes(dni, {"PADRE"}, {})

FiltroIdle ==
  /\ pc = "idle" /\ resultado = Null
  /\ datosSunat = NotStarted /\ datosOsce = NotStarted
  /\ resultados = <<>> /\ lookups = <<>> /\ fallidos = {}
  /\ adapterCalls = <<>>

\* procesarRUC(ruc), lines 718-752, up to its first await: an invalid format
\* returns at once, otherwise both buscarPorRUC calls are started with the
\* ruc as it was given
LlamarProcesarRUC(ruc) ==
  /\ LET validacion == validarFormatoRUC(ruc)
     IN IF ~validacion.valido
        THEN /\ resultado' = [NuevoResultado(ruc) EXCEPT
                                !.aprobado = FALSE,
                                !.motivoRechazo = validacion.mensaje]
             /\ pc' = "returned"
             /\ datosSunat' = NotStarted
             /\ datosOsce' = NotStarted
             /\ UNCHANGED adapterCalls
        ELSE /\ resultado' = NuevoResultado(ruc)
             /\ datosSunat' = Pending
             /\ datosOsce' = Pending
             /\ adapterCalls' = Append(adapterCalls, ruc)
             /\ pc' = "fetching"
  /\ resultados' = <<>> /\ lookups' = <<>> /\ fallidos' = {}

\* a caller other than the server invokes procesarRUC
ProcesarRUC(ruc) ==
  /\ pc = "idle" /\ spc = "idle"
  /\ LlamarProcesarRUC(ruc)
  /\ UNCHANGED <<cmpVars, nombreVars, servidorVars, dosVars, reporteVars>>

\* the promise of sunatScraper.buscarPorRUC settles
SunatSettles ==
  /\ pc = "fetching" /\ datosSunat = Pending
  /\ \E o \in SunatOutcomesDe(resultado.ruc) : datosSunat' = o
  /\ UNCHANGED <<pc, resultado, datosOsce, resultados, lookups, fallidos,
                 adapterCalls, cmpVars, nombreVars,
                 servidorVars, dosVars, reporteVars>>

\* the promise of osceScraper.buscarPorRUC settles
OsceSettles ==
  /\ pc = "fetching" /\ datosOsce = Pending
  /\ \E o \in OsceOutcomesDe(resultado.ruc) : datosOsce' = o
  /\ UNCHANGED <<pc, resultado, datosSunat, resultados, lookups, fallidos,
                 adapterCalls, cmpVars, nombreVars,
                 servidorVars, dosVars, reporteVars>>

\* SiguienteDNI invoking buscarDNI for all the ids at once
SiguienteDNIEnParalelo(r, res) ==
  /\ resultados' = res
  /\ IF Len(res) < Len(r.dnisTotales)
     THEN /\ lookups' = r.dnisTotales
          /\ pc' = "lookup"
          /\ resultado' = r
     ELSE /\ resultado' = Decidir(r, res)
          /\ pc' = "returned"
          /\ UNCHANGED lookups

\* validarMultiplesDNIs, the next turn of `for (const dni of dnis)` once the
\* results so far are res: invoke buscarDNI for the next id, or return the
\* results to procesarRUC (whose resultado is r), which decides and returns
SiguienteDNI(r, res) ==
  /\ resultados' = res
  /\ IF Len(res) < Len(r.dnisTotales)
     THEN /\ lookups' = Append(lookups, r.dnisTotales[Len(res) + 1])
          /\ pc' = "lookup"
          /\ resultado' = r
     ELSE /\ resultado' = Decidir(r, res)
          /\ pc' = "returned"
          /\ UNCHANGED lookups

\* SinDNIs never noticing the empty list
SinDNIsNunca(r) == FALSE

\* line 780: no identifier was found
SinDNIs(r) == Len(r.dnisTotales) = 0

\* AllSettled going on as soon as the SUNAT promise has settled, with the
\* OSCE promise still pending
AllSettledSinEsperar ==
  /\ pc = "fetching" /\ datosSunat # Pending
  /\ LET r == ProcesarDatos(resultado, datosSunat, datosOsce)
     IN IF SinDNIs(r)
        THEN /\ resultado' = [r EXCEPT !.aprobado = FALSE,
                                       !.motivoRechazo = MotivoSinDatos]
             /\ pc' = "returned"
             /\ UNCHANGED <<resultados, lookups>>
        ELSE SiguienteDNI([r EXCEPT !.personasDetalladas = PersonasDetalladas(r)],
                          <<>>)
  /\ UNCHANGED <<datosSunat, datosOsce, fallidos, adapterCalls, cmpVars, nombreVars,
                 servidorVars, dosVars, reporteVars>>

\* lines 754-828, after Promise.allSettled: merge, return when there is no
\* identifier, else build personasDetalladas and enter validarMultiplesDNIs,
\* whose first turn invokes buscarDNI
AllSettled ==
  /\ pc = "fetching" /\ datosSunat # Pending /\ datosOsce # Pending
  /\ LET r == ProcesarDatos(resultado, datosSunat, datosOsce)
     IN IF SinDNIs(r)
        THEN /\ resultado' = [r EXCEPT !.aprobado = FALSE,
                                       !.motivoRechazo = MotivoSinDatos]
             /\ pc' = "returned"
             /\ UNCHANGED <<resultados, lookups>>
        ELSE SiguienteDNI([r EXCEPT !.personasDetalladas = PersonasDetalladas(r)],
                          <<>>)
  /\ UNCHANGED <<datosSunat, datosOsce, fallidos, adapterCalls, cmpVars, nombreVars,
                 servidorVars, dosVars, reporteVars>>

\* BuscarDNISettles without the try/catch of the loop: a failure of buscarDNI
\* leaves validarMultiplesDNIs and procesarRUC
BuscarDNISettlesSinCatch ==
  /\ pc = "lookup"
  /\ LET dni == resultado.dnisTotales[Len(resultados) + 1]
     IN \E o \in BuscarDNIFiltro(dni) :
          IF o = Throws
          THEN /\ pc' = "thrown"
               /\ UNCHANGED <<resultado, resultados, lookups, fallidos>>
          ELSE /\ resultados' = Append(resultados, o)
               /\ pc' = "sleeping"
               /\ UNCHANGED <<resultado, lookups, fallidos>>
  /\ UNCHANGED <<datosSunat, datosOsce, adapterCalls, cmpVars, nombreVars,
                 servidorVars, dosVars, reporteVars>>

\* validarMultiplesDNIs lines 162-175: buscarDNI settles; its record is
\* pushed and the sleep starts, or its failure is caught, an error entry is
\* pushed and the loop goes on
BuscarDNISettles ==
  /\ pc = "lookup"
  /\ LET dni == resultado.dnisTotales[Len(resultados) + 1]
     IN \E o \in BuscarDNIFiltro(dni) :
          IF o = Throws
          THEN /\ fallidos' = fallidos \cup {dni}
               /\ SiguienteDNI(resultado, Append(resultados, EntradaError(dni)))
          ELSE /\ resultados' = Append(resultados, o)
               /\ pc' = "sleeping"
               /\ UNCHANGED <<resultado, lookups, fallidos>>
  /\ UNCHANGED <<datosSunat, datosOsce, adapterCalls, cmpVars, nombreVars,
                 servidorVars, dosVars, reporteVars>>

\* validarMultiplesDNIs line 167: the sleep after a successful lookup ends
SleepDone ==
  /\ pc = "sleeping"
  /\ SiguienteDNI(resultado, resultados)
  /\ UNCHANGED <<datosSunat, datosOsce, fallidos, adapterCalls, cmpVars, nombreVars,
                 servidorVars, dosVars, reporteVars>>

FiltroNext ==
  \/ \E ruc \in RucInputs : ProcesarRUC(ruc)
  \/ SunatSettles
  \/ OsceSettles
  \/ AllSettled
  \/ BuscarDNISettles
  \/ SleepDone

-----------------------------------------------------------------------------
(* ComparacionDNIService *)

\* number of distinct person ids a comparison request can name
NumDnisCmp == 3

\* longest `dnis` array of a comparison request
MaxLista == 3

\* x || null for a string x, and the truthiness of the result ("null"
\* stands for null; no identifier and no label is spelled that way)
OrNull(x) == IF x = "" THEN "null" ELSE x
Truthy(x) == x # "" /\ x # "null"

\* parentesco || 'Familiar'
TipoRelacion(p) == IF Truthy(p) THEN p ELSE "Familiar"

\* compararDNIs lines 39-47: the entry pushed for a validation
EntradaValidada(dni, validacion) ==
  [dni |-> dni, encontrado |-> validacion.encontrado,
   esFamiliar |-> validacion.esFamiliar,
   parentesco |-> OrNull(validacion.parentesco),
   dniFamiliar |-> OrNull(validacion.dniFamiliar)]

\* vinculoExiste looking for the pair in one direction only
vinculoExisteUnSentido(vinculos, persona1) ==
  \E i \in 1..Len(vinculos) :
    vinculos[i].dni1 = persona1.dni /\ vinculos[i].dni2 = persona1.dniFamiliar

\* detectarVinculos lines 126-129: vinculos.some(...)
vinculoExiste(vinculos, persona1) ==
  \E i \in 1..Len(vinculos) :
    \/ vinculos[i].dni1 = persona1.dni /\ vinculos[i].dni2 = persona1.dniFamiliar
    \/ vinculos[i].dni1 = persona1.dniFamiliar /\ vinculos[i].dni2 = persona1.dni

\* DetectarUno not asking whether the relative is in the list
DetectarUnoSinLista(vinculos, persona1, dnisList) ==
  IF ~persona1.encontrado \/ ~persona1.esFamiliar THEN vinculos
  ELSE IF Truthy(persona1.dniFamiliar) /\ ~vinculoExiste(vinculos, persona1)
  THEN Append(vinculos, [dni1 |-> persona1.dni, dni2 |-> persona1.dniFamiliar,
                         tipoRelacion |-> TipoRelacion(persona1.parentesco)])
  ELSE vinculos

\* detectarVinculos lines 113-142, one turn of the loop
DetectarUno(vinculos, persona1, dnisList) ==
  IF ~persona1.encontrado \/ ~persona1.esFamiliar THEN vinculos
  ELSE IF Truthy(persona1.dniFamiliar) /\ Includes(dnisList, persona1.dniFamiliar)
          /\ ~vinculoExiste(vinculos, persona1)
  THEN Append(vinculos, [dni1 |-> persona1.dni, dni2 |-> persona1.dniFamiliar,
                         tipoRelacion |-> TipoRelacion(persona1.parentesco)])
  ELSE vinculos

\* detectarVinculos: the links after the first n validated entries
RECURSIVE DetectarHasta(_, _, _)
DetectarHasta(dnisValidados, dnisList, n) ==
  IF n = 0 THEN <<>>
  ELSE DetectarUno(DetectarHasta(dnisValidados, dnisList, n - 1),
                   dnisValidados[n], dnisList)

\* ComparacionDNIService.detectarVinculos (names are left out of a link)
detectarVinculos(dnisValidados, dnisList) ==
  DetectarHasta(dnisValidados, dnisList, Len(dnisValidados))

\* the ids of a Set filled with dni1, dni2 of every link, in insertion order
RECURSIVE ExtremosDe(_)
ExtremosDe(vinculos) ==
  IF vinculos = <<>> THEN <<>>
  ELSE LET v == vinculos[Len(vinculos)]
       IN AgregarUnicos(ExtremosDe(SubSeq(vinculos, 1, Len(vinculos) - 1)),
                        <<v.dni1, v.dni2>>)

\* v => !v.encontrado
NoEncontrado(v) == ~v.encontrado

\* dnisValidados.filter(v => !v.encontrado).map(v => v.dni)
DnisSinDatos(arr) == DnisDe(SelectSeq(arr, NoEncontrado))

\* compararDNIs lines 63-74
Resumen(r) ==
  LET conVinculos == Len(ExtremosDe(r.vinculosEncontrados))
      sinDatos == Len(DnisSinDatos(r.dnisValidados))
  IN [totalVinculos |-> Len(r.vinculosEncontrados),
      dnisConVinculos |-> conVinculos,
      dnisSinDatos |-> sinDatos,
      dnisSinVinculos |-> r.totalDNIs - conVinculos - sinDatos]

\* compararDNIs lines 59-94, after the loop
TerminarComparacion(r, dnis) ==
  LET r1 == [r EXCEPT !.vinculosEncontrados = detectarVinculos(r.dnisValidados, dnis)]
  IN [r1 EXCEPT !.resumen = Resumen(r1)]

\* ComparacionDNIService.generarReporte (message and timestamp left out)
generarReporte(r) ==
  LET dnisConVinculos == ExtremosDe(r.vinculosEncontrados)
      SinVinculos(v) == v.encontrado /\ ~Includes(dnisConVinculos, v.dni)
  IN [hayVinculos |-> Len(r.vinculosEncontrados) > 0,
      totalDNIs |-> r.totalDNIs,
      totalVinculos |-> Len(r.vinculosEncontrados),
      dnisConVinculos |-> dnisConVinculos,
      dnisSinVinculos |-> DnisDe(SelectSeq(r.dnisValidados, SinVinculos)),
      dnisSinDatos |-> DnisSinDatos(r.dnisValidados),
      vinculos |-> r.vinculosEncontrados]

CmpDnis == {DniId(k) : k \in 1..NumDnisCmp}

\* request bodies: no dnis field, or a dnis array (duplicates and malformed
\* ids included)
CmpBodies ==
  {[otro |-> TRUE]}
  \cup {[dnis |-> l] : l \in SeqsUpTo(CmpDnis \cup {DniMalformado}, MaxLista)}

\* what the relationship registry answers in a comparison: two relation
\* labels; the second id of the page is any of the ids, the queried one included
BuscarDNICmp(dni) == BuscarDNIOutcomes(dni, {"PADRE", "HIJO"}, CmpDnis)

Error400(error) == [status |-> 400, success |-> FALSE, error |-> error]
Error500 == [status |-> 500, success |-> FALSE, error |-> "Error interno del servidor"]

CmpIdle ==
  /\ cpc = "idle" /\ body = Null /\ dnisUnicos = <<>>
  /\ comparacion = Null /\ clookups = <<>> /\ response = Null

\* dnis.filter(dni => !/^\d{8}$/.test(dni))
EsDniInvalido(dni) == ~SoloDigitos(Caracteres(dni), 8)

\* server.js lines 215-255: the checks of POST /api/comparar-dnis, in order;
\* Null when the request passes them
ValidarComparar(b) ==
  IF "dnis" \notin DOMAIN b THEN Error400("El campo dnis es requerido")
  ELSE IF Len(b.dnis) = 0 THEN Error400("Debe proporcionar al menos un DNI")
  ELSE IF Len(b.dnis) < 2
  THEN Error400("Debe proporcionar al menos 2 DNIs para comparar")
  ELSE IF SelectSeq(b.dnis, EsDniInvalido) # <<>>
  THEN Error400("Algunos DNIs tienen formato invalido (deben ser 8 digitos)")
  ELSE Null

\* POST /api/comparar-dnis, lines 211-264, and compararDNIs up to its first
\* await: a request that fails a check is answered 400; otherwise the ids are
\* de-duplicated and compararDNIs invokes buscarDNI for the first of them
PostCompararDnis(b) ==
  /\ cpc = "idle"
  /\ body' = b
  /\ IF ValidarComparar(b) # Null
     THEN /\ response' = ValidarComparar(b)
          /\ cpc' = "done"
          /\ UNCHANGED <<dnisUnicos, comparacion, clookups>>
     ELSE /\ dnisUnicos' = Unicos(b.dnis)
          /\ comparacion' = [totalDNIs |-> Len(Unicos(b.dnis)),
                             dnisValidados |-> <<>>,
                             vinculosEncontrados |-> <<>>,
                             resumen |-> [totalVinculos |-> 0, dnisConVinculos |-> 0,
                                          dnisSinVinculos |-> 0, dnisSinDatos |-> 0]]
          /\ clookups' = <<Unicos(b.dnis)[1]>>
          /\ cpc' = "lookup"
          /\ UNCHANGED response
  /\ UNCHANGED <<filtroVars, nombreVars, servidorVars, dosVars, reporteVars>>

\* compararDNIs lines 34-94 and server.js lines 265-280, when buscarDNI
\* settles: a failure leaves compararDNIs and is answered 500 by the endpoint;
\* a record is pushed and the loop invokes buscarDNI for the next id, or, after
\* the last id, the links, the summary and the report are computed and sent
CompararBuscarDNISettles ==
  /\ cpc = "lookup"
  /\ LET dni == dnisUnicos[Len(comparacion.dnisValidados) + 1]
     IN \E o \in BuscarDNICmp(dni) :
          IF o = Throws
          THEN /\ response' = Error500
               /\ cpc' = "done"
               /\ UNCHANGED <<comparacion, clookups>>
          ELSE LET r == [comparacion EXCEPT
                           !.dnisValidados = Append(@, EntradaValidada(dni, o))]
               IN IF Len(r.dnisValidados) < Len(dnisUnicos)
                  THEN /\ comparacion' = r
                       /\ clookups' = Append(clookups,
                                             dnisUnicos[Len(r.dnisValidados) + 1])
                       /\ UNCHANGED <<cpc, response>>
                  ELSE LET fin == TerminarComparacion(r, dnisUnicos)
                       IN /\ comparacion' = fin
                          /\ response' = [status |-> 200, success |-> TRUE,
                                          reporte |-> generarReporte(fin),
                                          detalles |-> fin]
                          /\ cpc' = "done"
                          /\ UNCHANGED clookups
  /\ UNCHANGED <<body, dnisUnicos, filtroVars, nombreVars, servidorVars, dosVars, reporteVars>>

CompararNext ==
  \/ \E b \in CmpBodies : PostCompararDnis(b)
  \/ CompararBuscarDNISettles

-----------------------------------------------------------------------------
(* server.js: POST /api/filtrar-ruc and POST /api/filtrar-rucs-batch *)

\* longest `rucs` array explored with every mix of org ids; arrays of
\* MAX_RUCS_PER_BATCH and MAX_RUCS_PER_BATCH + 1 entries repeat one org id
MaxLote == 2

\* process.env.MAX_RUCS_PER_BATCH || 5, with the variable unset
MAX_RUCS_PER_BATCH == 5

\* org ids a request names: two well formed, a prefix outside the whitelist,
\* 10 digits
RucsServidor == {RucLoteA, RucLoteB, "30000000000", "2000000000"}

\* req.body of POST /api/filtrar-ruc
FiltrarBodies ==
  {[otro |-> TRUE]}
  \cup {[ruc |-> r] : r \in RucsServidor \cup {"", RucConEspacio}}

\* req.body of POST /api/filtrar-rucs-batch
LoteBodies ==
  {[otro |-> TRUE]}
  \cup {[rucs |-> l] : l \in SeqsUpTo(RucsServidor, MaxLote)}
  \cup {[rucs |-> [i \in 1..n |-> r]] :
          r \in RucsServidor \ {RucLoteB},
          n \in {MAX_RUCS_PER_BATCH, MAX_RUCS_PER_BATCH + 1}}

ServidorIdle ==
  /\ spc = "idle" /\ sbody = Null /\ bresultados = <<>>
  /\ llamadas = <<>> /\ socket = "open" /\ sresponse = Null

\* !/^\d{11}$/.test(ruc)
EsRucInvalido(ruc) == ~SoloDigitos(Caracteres(ruc), 11)

\* server.js lines 71-84: the checks of POST /api/filtrar-ruc; Null when the
\* request passes them
ValidarFiltrar(b) ==
  IF "ruc" \notin DOMAIN b \/ b.ruc = "" THEN Error400("El campo RUC es requerido")
  ELSE IF EsRucInvalido(b.ruc) THEN Error400("El RUC debe tener 11 digitos")
  ELSE Null

\* ExcedeMaximo never finding an array too long
ExcedeMaximoNunca(lista) == FALSE

\* server.js line 125: rucs.length > MAX_RUCS_PER_BATCH
ExcedeMaximo(lista) == Len(lista) > MAX_RUCS_PER_BATCH

\* server.js lines 126-130: the answer to an array that is too long
ErrorLoteGrande(n) ==
  [status |-> 400, success |-> FALSE,
   error |-> <<"Por limitaciones de tiempo, solo se pueden procesar maximo ",
               MAX_RUCS_PER_BATCH, " RUCs por vez. Recibiste ", n, ".">>,
   sugerencia |-> <<"Divide tu lista en grupos de ", MAX_RUCS_PER_BATCH, " RUCs">>]

\* server.js lines 110-141: the checks of POST /api/filtrar-rucs-batch, in
\* order; Null when the request passes them
ValidarLote(b) ==
  IF "rucs" \notin DOMAIN b THEN Error400("El campo rucs debe ser un array")
  ELSE IF Len(b.rucs) = 0 THEN Error400("El array de RUCs no puede estar vacio")
  ELSE IF ExcedeMaximo(b.rucs) THEN ErrorLoteGrande(Len(b.rucs))
  ELSE IF SelectSeq(b.rucs, EsRucInvalido) # <<>>
  THEN [status |-> 400, success |-> FALSE,
        error |-> "Algunos RUCs tienen formato invalido",
        rucsInvalidos |-> SelectSeq(b.rucs, EsRucInvalido)]
  ELSE Null

\* the branches of FiltroService.generarReporte, lines 912-925
\* EsAprobado without the test of the error flag before it
EsAprobadoSinErrores(r) == "aprobado" \in DOMAIN r => r.aprobado

EsAprobado(r) == ~EsError(r) /\ r.aprobado
EsRechazado(r) == ~EsError(r) /\ ~r.aprobado

\* FiltroService.generarReporte, lines 903-929
generarReporteFiltro(res) ==
  LET rechazados == SelectSeq(res, EsRechazado)
  IN [totalProcesados |-> Len(res),
      aprobados |-> Len(SelectSeq(res, EsAprobado)),
      rechazados |-> Len(rechazados),
      errores |-> Len(SelectSeq(res, EsError)),
      detalleRechazos |->
        [i \in 1..Len(rechazados) |->
           [ruc |-> rechazados[i].ruc,
            razonSocial |-> rechazados[i].razonSocial,
            motivo |-> rechazados[i].motivoRechazo,
            dnisConFamiliares |-> rechazados[i].dnisConFamiliares]]]

\* res.json / res.status(..).json on the connection: nothing reaches the
\* caller of a destroyed one
Enviar(r) == sresponse' = IF socket = "open" THEN r ELSE sresponse

\* POST /api/filtrar-ruc, lines 67-86: a request that fails a check is
\* answered 400, otherwise procesarRUC is invoked
PostFiltrarRuc(b) ==
  /\ spc = "idle" /\ pc = "idle"
  /\ sbody' = b
  /\ IF ValidarFiltrar(b) # Null
     THEN /\ Enviar(ValidarFiltrar(b))
          /\ spc' = "done"
          /\ UNCHANGED <<llamadas, filtroVars>>
     ELSE /\ LlamarProcesarRUC(b.ruc)
          /\ llamadas' = <<b.ruc>>
          /\ spc' = "single"
          /\ UNCHANGED sresponse
  /\ UNCHANGED <<bresultados, socket, cmpVars, nombreVars, dosVars, reporteVars>>

\* POST /api/filtrar-ruc, lines 86-91: procesarRUC has returned
ResponderFiltrarRuc ==
  /\ spc = "single" /\ pc = "returned"
  /\ Enviar([status |-> 200, success |-> TRUE, data |-> resultado])
  /\ spc' = "done"
  /\ UNCHANGED <<sbody, bresultados, llamadas, socket, filtroVars, cmpVars,
                 nombreVars, dosVars, reporteVars>>

\* POST /api/filtrar-rucs-batch, lines 106-146, and procesarMultiplesRUCs up
\* to its first await: a request that fails a check is answered 400,
\* otherwise procesarRUC is invoked for the first org id
PostFiltrarRucsBatch(b) ==
  /\ spc = "idle" /\ pc = "idle"
  /\ sbody' = b
  /\ IF ValidarLote(b) # Null
     THEN /\ Enviar(ValidarLote(b))
          /\ spc' = "done"
          /\ UNCHANGED <<llamadas, filtroVars>>
     ELSE /\ LlamarProcesarRUC(b.rucs[1])
          /\ llamadas' = <<b.rucs[1]>>
          /\ spc' = "batch"
          /\ UNCHANGED sresponse
  /\ UNCHANGED <<bresultados, socket, cmpVars, nombreVars, dosVars, reporteVars>>

\* QuedanRUCs stopping the loop at the first result that is not approved
QuedanRUCsHastaRechazo(res, lista) ==
  Len(res) < Len(lista) /\ res[Len(res)].aprobado

\* procesarMultiplesRUCs line 881, `for (const ruc of rucs)`: an org id is
\* left when there are fewer results than org ids
QuedanRUCs(res, lista) == Len(res) < Len(lista)

\* procesarMultiplesRUCs lines 881-895 and server.js lines 146-158, when
\* procesarRUC returns: its result is pushed and procesarRUC is invoked for
\* the next org id, or, after the last, the report is computed and sent.
\* (procesarRUC never throws, so the catch of lines 885-892 takes no step.)
SiguienteRUC ==
  /\ spc = "batch" /\ pc = "returned"
  /\ LET res == Append(bresultados, resultado)
     IN /\ bresultados' = res
        /\ IF QuedanRUCs(res, sbody.rucs)
           THEN /\ LlamarProcesarRUC(sbody.rucs[Len(res) + 1])
                /\ llamadas' = Append(llamadas, sbody.rucs[Len(res) + 1])
                /\ UNCHANGED <<spc, sresponse>>
           ELSE /\ Enviar([status |-> 200, success |-> TRUE,
                           reporte |-> generarReporteFiltro(res),
                           resultados |-> res])
                /\ spc' = "done"
                /\ UNCHANGED <<llamadas, filtroVars>>
  /\ UNCHANGED <<sbody, socket, cmpVars, nombreVars, dosVars, reporteVars>>

\* server.js lines 14-24: REQUEST_TIMEOUT passes on a request in progress.
\* req.setTimeout and res.setTimeout were given no callback and nothing
\* listens for 'timeout', so the connection is destroyed; the handler and the
\* promises it awaits are not told
RequestTimeout ==
  /\ spc \in {"single", "batch"} /\ socket = "open"
  /\ socket' = "destroyed"
  /\ UNCHANGED <<spc, sbody, bresultados, llamadas, sresponse, filtroVars,
                 cmpVars, nombreVars, dosVars, reporteVars>>

\* the steps of a procesarRUC call in progress
FiltroPaso ==
  \/ SunatSettles
  \/ OsceSettles
  \/ AllSettled
  \/ BuscarDNISettles
  \/ SleepDone

ServidorNext ==
  \/ \E b \in FiltrarBodies : PostFiltrarRuc(b)
  \/ \E b \in LoteBodies : PostFiltrarRucsBatch(b)
  \/ FiltroPaso
  \/ ResponderFiltrarRuc
  \/ SiguienteRUC
  \/ RequestTimeout

\* one request to the server, of any of the three kinds
PeticionNext ==
  \/ cpc = "idle" /\ ServidorNext
  \/ spc = "idle" /\ pc = "idle" /\ CompararNext

-----------------------------------------------------------------------------
(* Two procesarRUC calls in flight on the one FiltroService instance *)

\* the two calls
Runs == {"a", "b"}

\* org ids the calls are made with
RucsDos == {RucLoteA, RucLoteB, "30000000000"}

\* Propio with the locals kept on the instance: every call uses those of "a"
Compartido(i) == "a"

\* lines 723-736 and validarMultiplesDNIs line 159: `resultado` and
\* `resultados` are locals, a call has its own
Propio(i) == i

DosIdle ==
  /\ dpc = [i \in Runs |-> "idle"]
  /\ marco = [i \in Runs |-> Null]
  /\ recibido = [i \in Runs |-> Null]
  /\ devuelto = [i \in Runs |-> Null]

\* some other call is between its invocation and its return
OtraEnCurso(i) == \E j \in Runs \ {i} : dpc[j] \in {"fetching", "lookup", "sleeping"}

\* `return resultado`
Devolver(i, m) ==
  /\ devuelto' = [devuelto EXCEPT ![i] = m[Propio(i)].resultado]
  /\ dpc' = [dpc EXCEPT ![i] = "returned"]

\* procesarRUC(ruc), lines 718-752, up to its first await
DosLlamar(i, ruc) ==
  /\ dpc[i] = "idle"
  /\ recibido' = [recibido EXCEPT ![i] =
                    [ruc |-> ruc, solapada |-> OtraEnCurso(i),
                     sunat |-> NotStarted, osce |-> NotStarted,
                     lookups |-> <<>>, validaciones |-> <<>>]]
  /\ LET validacion == validarFormatoRUC(ruc)
         m == [marco EXCEPT ![Propio(i)] = [resultado |-> NuevoResultado(ruc),
                                            resultados |-> <<>>]]
     IN IF ~validacion.valido
        THEN /\ marco' = [m EXCEPT ![Propio(i)].resultado.aprobado = FALSE,
                                   ![Propio(i)].resultado.motivoRechazo =
                                     validacion.mensaje]
             /\ Devolver(i, marco')
        ELSE /\ marco' = m
             /\ dpc' = [dpc EXCEPT ![i] = "fetching"]
             /\ UNCHANGED devuelto
  /\ UNCHANGED <<filtroVars, cmpVars, nombreVars, servidorVars, reporteVars>>

\* validarMultiplesDNIs lines 161-176, the turn of the loop after res, and
\* procesarRUC lines 830-866 when the loop is over
DosSiguienteDNI(i, r, res) ==
  IF Len(res) < Len(r.dnisTotales)
  THEN /\ marco' = [marco EXCEPT ![Propio(i)] = [resultado |-> r, resultados |-> res]]
       /\ recibido' = [recibido EXCEPT ![i].lookups =
                         Append(@, r.dnisTotales[Len(res) + 1])]
       /\ dpc' = [dpc EXCEPT ![i] = "lookup"]
       /\ UNCHANGED devuelto
  ELSE /\ marco' = [marco EXCEPT ![Propio(i)] = [resultado |-> Decidir(r, res),
                                                 resultados |-> res]]
       /\ Devolver(i, marco')
       /\ UNCHANGED recibido

\* lines 747-828: Promise.allSettled resumes the call with both outcomes
DosAllSettled(i) ==
  /\ dpc[i] = "fetching"
  /\ \E s \in SunatOutcomesDe(recibido[i].ruc), o \in OsceOutcomesDe(recibido[i].ruc) :
       LET r == ProcesarDatos(marco[Propio(i)].resultado, s, o)
           rec == [recibido EXCEPT ![i].sunat = s, ![i].osce = o]
       IN IF SinDNIs(r)
          THEN /\ marco' = [marco EXCEPT ![Propio(i)].resultado =
                              [r EXCEPT !.aprobado = FALSE,
                                        !.motivoRechazo = MotivoSinDatos]]
               /\ Devolver(i, marco')
               /\ recibido' = rec
          ELSE /\ marco' = [marco EXCEPT ![Propio(i)] =
                              [resultado |->
                                 [r EXCEPT !.personasDetalladas = PersonasDetalladas(r)],
                               resultados |-> <<>>]]
               /\ recibido' = [rec EXCEPT ![i].lookups = <<r.dnisTotales[1]>>]
               /\ dpc' = [dpc EXCEPT ![i] = "lookup"]
               /\ UNCHANGED devuelto
  /\ UNCHANGED <<filtroVars, cmpVars, nombreVars, servidorVars, reporteVars>>

\* validarMultiplesDNIs lines 162-175: the buscarDNI of call i settles
DosBuscarDNISettles(i) ==
  /\ dpc[i] = "lookup"
  /\ LET dni == recibido[i].lookups[Len(recibido[i].lookups)]
         f == marco[Propio(i)]
     IN \E o \in BuscarDNIFiltro(dni) :
          IF o = Throws
          THEN LET rec == [recibido EXCEPT ![i].validaciones =
                             Append(@, EntradaError(dni))]
                   res == Append(f.resultados, EntradaError(dni))
               IN IF Len(res) < Len(f.resultado.dnisTotales)
                  THEN /\ marco' = [marco EXCEPT ![Propio(i)].resultados = res]
                       /\ recibido' = [rec EXCEPT ![i].lookups =
                                         Append(@, f.resultado.dnisTotales[Len(res) + 1])]
                       /\ UNCHANGED <<dpc, devuelto>>
                  ELSE /\ marco' = [marco EXCEPT ![Propio(i)] =
                                      [resultado |-> Decidir(f.resultado, res),
                                       resultados |-> res]]
                       /\ Devolver(i, marco')
                       /\ recibido' = rec
          ELSE /\ marco' = [marco EXCEPT ![Propio(i)].resultados = Append(@, o)]
               /\ recibido' = [recibido EXCEPT ![i].validaciones = Append(@, o)]
               /\ dpc' = [dpc EXCEPT ![i] = "sleeping"]
               /\ UNCHANGED devuelto
  /\ UNCHANGED <<filtroVars, cmpVars, nombreVars, servidorVars, reporteVars>>

\* validarMultiplesDNIs line 167: the sleep of call i ends
DosSleepDone(i) ==
  /\ dpc[i] = "sleeping"
  /\ DosSiguienteDNI(i, marco[Propio(i)].resultado, marco[Propio(i)].resultados)
  /\ UNCHANGED <<filtroVars, cmpVars, nombreVars, servidorVars, reporteVars>>

DosNext ==
  \/ \E i \in Runs, ruc \in RucsDos : DosLlamar(i, ruc)
  \/ \E i \in Runs : DosAllSettled(i)
  \/ \E i \in Runs : DosBuscarDNISettles(i)
  \/ \E i \in Runs : DosSleepDone(i)

\* procesarRUC lines 718-871 from beginning to end: the result of a call
\* that was given what rec says
ResultadoSolo(rec) ==
  LET validacion == validarFormatoRUC(rec.ruc)
      r == ProcesarDatos(NuevoResultado(rec.ruc), rec.sunat, rec.osce)
  IN IF ~validacion.valido
     THEN [NuevoResultado(rec.ruc) EXCEPT !.aprobado = FALSE,
                                          !.motivoRechazo = validacion.mensaje]
     ELSE IF SinDNIs(r)
     THEN [r EXCEPT !.aprobado = FALSE, !.motivoRechazo = MotivoSinDatos]
     ELSE Decidir([r EXCEPT !.personasDetalladas = PersonasDetalladas(r)],
                  rec.validaciones)

-----------------------------------------------------------------------------
(* FiltroService.generarReporte applied to a result list *)

MaxResultados == 3

\* buscarDNI found the person: without a relation, with one
SinFamiliar(dni) == [dni |-> dni, encontrado |-> TRUE, esFamiliar |-> FALSE,
                     parentesco |-> "NINGUNO", dniFamiliar |-> ""]
ConFamiliar(dni) == [dni |-> dni, encontrado |-> TRUE, esFamiliar |-> TRUE,
                     parentesco |-> "PADRE", dniFamiliar |-> ""]

\* procesarMultiplesRUCs lines 878-896: what the loop pushes for an org id, a
\* result of procesarRUC (no data, approved, rejected for a relative) or the
\* entry of its catch
EntradasDe(ruc) ==
  LET conUno(v) == [ruc |-> ruc, sunat |-> SunatConRepresentantes(1),
                    osce |-> Rejected, validaciones |-> <<v>>]
  IN {ResultadoSolo([ruc |-> ruc, sunat |-> Rejected, osce |-> Rejected,
                     validaciones |-> <<>>]),
      ResultadoSolo(conUno(SinFamiliar(DniId(1)))),
      ResultadoSolo(conUno(ConFamiliar(DniId(1)))),
      [ruc |-> ruc, error |-> TRUE, mensaje |-> "error.message"]}

Lotes == SeqsUpTo(EntradasDe(RucLoteA) \cup EntradasDe(RucLoteB), MaxResultados)

ReporteIdle == lote = <<>> /\ reporte = Null

\* generarReporte(resultados)
GenerarReporte(l) ==
  /\ reporte = Null
  /\ lote' = l
  /\ reporte' = generarReporteFiltro(l)
  /\ UNCHANGED <<filtroVars, cmpVars, nombreVars, servidorVars, dosVars>>

ReporteNext == \E l \in Lotes : GenerarReporte(l)

-----------------------------------------------------------------------------
(* Specifications *)

Init == FiltroIdle /\ CmpIdle /\ NombreIdle /\ ServidorIdle /\ DosIdle /\ ReporteIdle

\* one call of FiltroService.procesarRUC
Next == FiltroNext
Spec == Init /\ [][Next]_vars

\* one request to POST /api/comparar-dnis
SpecComparar == Init /\ [][CompararNext]_vars

\* formatearNombre applied to a name and to its own output
SpecNombre == Init /\ [][NombreNext]_vars

\* one request to POST /api/filtrar-ruc or POST /api/filtrar-rucs-batch
SpecServidor == Init /\ [][ServidorNext]_vars

\* one request to the server
SpecPeticion == Init /\ [][PeticionNext]_vars

\* two calls of procesarRUC on the same instance, interleaved at their awaits
SpecDos == Init /\ [][DosNext]_vars

\* FiltroService.generarReporte applied to a result list
SpecReporte == Init /\ [][ReporteNext]_vars

-----------------------------------------------------------------------------
(* Properties *)

\* the ids a settled adapter outcome reports
IdsDe(datos) == IF datos.status = "fulfilled" THEN Elems(datos.value.dnis) ELSE {}

\* the minimum-count errors of POST /api/comparar-dnis
ErroresMinimo ==
  { Error400("Debe proporcionar al menos un DNI"),
    Error400("Debe proporcionar al menos 2 DNIs para comparar") }

\* C1: a comparison request whose list holds fewer than 2 distinct (well
\* formed) identifiers is answered with the minimum-count error, and buscarDNI
\* is never invoked for it.
C1_MenosDeDosDistintos ==
  ( /\ cpc # "idle"
    /\ "dnis" \in DOMAIN body
    /\ Elems(body.dnis) \subseteq CmpDnis
    /\ Cardinality(Elems(body.dnis)) < 2 )
  => /\ clookups = <<>>
     /\ response \in ErroresMinimo

\* C2 (as stated): every result procesarRUC returns has
\* aprobado = (dnisConFamiliares is empty).
C2_AprobadoIgualSinFamiliares ==
  pc = "returned" =>
    (resultado.aprobado <=> resultado.dnisConFamiliares = <<>>)

\* C2 (amended): in every result procesarRUC returns, aprobado implies that
\* dnisConFamiliares is empty; in a result returned after the lookups aprobado
\* equals (dnisConFamiliares is empty); a result returned before any lookup
\* (invalid format, no identifier) has aprobado = false with an empty
\* dnisConFamiliares and a reason.
C2_AprobadoTrasValidar ==
  pc = "returned" =>
    /\ resultado.aprobado => resultado.dnisConFamiliares = <<>>
    /\ lookups # <<>> =>
         (resultado.aprobado <=> resultado.dnisConFamiliares = <<>>)
    /\ lookups = <<>> =>
         /\ ~resultado.aprobado
         /\ resultado.dnisConFamiliares = <<>>
         /\ resultado.motivoRechazo # <<>>

\* C2 witness: a run rejected after its lookups
C2_Witness ==
  pc = "returned" /\ lookups # <<>> /\ ~resultado.aprobado
  /\ resultado.dnisConFamiliares # <<>>

\* C3: in every result procesarRUC returns, dnisAprobados and
\* dnisConFamiliares are disjoint and together are the ids of
\* personasDetalladas.
C3_ParticionDePersonas ==
  pc = "returned" =>
    /\ Elems(resultado.dnisAprobados) \cap Elems(resultado.dnisConFamiliares) = {}
    /\ Elems(resultado.dnisAprobados) \cup Elems(resultado.dnisConFamiliares)
         = {resultado.personasDetalladas[i].dni :
              i \in 1..Len(resultado.personasDetalladas)}

\* C3 witness: two ids from different sources, one lookup failed and the
\* other found a relative
C3_Witness ==
  /\ pc = "returned"
  /\ fallidos # {}
  /\ resultado.dnisConFamiliares # <<>>
  /\ datosSunat.status = "fulfilled" /\ datosOsce.status = "fulfilled"
  /\ Len(resultado.personasDetalladas) = 2

\* C4: when the merged identifier list is not empty, the result has
\* aprobado = false exactly when some lookup result has esFamiliar = true,
\* dnisConFamiliares is the ids whose result has esFamiliar = true and
\* dnisAprobados is the other ids of the run.
C4_RechazoSiAlguno ==
  (pc = "returned" /\ resultado.dnisTotales # <<>>) =>
    LET familiares ==
          {resultados[i].dni : i \in {j \in 1..Len(resultados) :
             "esFamiliar" \in DOMAIN resultados[j] /\ resultados[j].esFamiliar}}
    IN /\ ~resultado.aprobado <=> familiares # {}
       /\ Elems(resultado.dnisConFamiliares) = familiares
       /\ Elems(resultado.dnisAprobados) = Elems(resultado.dnisTotales) \ familiares
       /\ Len(resultado.dnisConFamiliares) + Len(resultado.dnisAprobados)
            = Len(resultado.dnisTotales)

\* C4 witness: the first id is related, the second is not
C4_Witness ==
  /\ pc = "returned"
  /\ resultado.dnisTotales = <<DniId(1), DniId(2)>>
  /\ ~resultado.aprobado
  /\ resultado.dnisConFamiliares = <<DniId(1)>>
  /\ resultado.dnisAprobados = <<DniId(2)>>

\* C5: when both adapters have settled and report no identifier (both failed,
\* or those that succeeded found none), no buscarDNI is invoked and the result
\* returned has aprobado = false with the no-data reason.
C5_SinIdentificadores ==
  ( /\ datosSunat.status \in {"rejected", "fulfilled"}
    /\ datosOsce.status \in {"rejected", "fulfilled"}
    /\ IdsDe(datosSunat) \cup IdsDe(datosOsce) = {} )
  => /\ lookups = <<>>
     /\ pc = "returned" =>
          /\ ~resultado.aprobado
          /\ resultado.motivoRechazo = MotivoSinDatos

\* C5 witness: both adapters failed and the run returned
C5_Witness ==
  pc = "returned" /\ datosSunat = Rejected /\ datosOsce = Rejected

\* C6: a comparison whose request passed the checks ends with a report
\* (status 200), with buscarDNI invoked for every identifier, also when a
\* lookup failed.
C6_ComparacionToleraFallo ==
  (cpc = "done" /\ ValidarComparar(body) = Null) =>
    /\ response.status = 200
    /\ clookups = dnisUnicos
    /\ Len(comparacion.dnisValidados) = Len(dnisUnicos)

\* the array validarMultiplesDNIs is working on (empty outside a run)
DnisDelRun == IF pc \in {"lookup", "sleeping", "returned"} THEN resultado.dnisTotales ELSE <<>>

C8_ParticionDelReporte ==
  (cpc = "done" /\ response.status = 200) =>
    LET con == Elems(response.reporte.dnisConVinculos)
        sinDatos == Elems(response.reporte.dnisSinDatos)
        sinVinculos == Elems(response.reporte.dnisSinVinculos)
    IN /\ con \cap sinDatos = {}
       /\ con \cap sinVinculos = {}
       /\ sinDatos \cap sinVinculos = {}
       /\ con \cup sinDatos \cup sinVinculos = Elems(dnisUnicos)

\* C9: the links of a comparison never hold two entries for the same
\* unordered pair of identifiers.
C9_SinParesRepetidos ==
  (cpc = "done" /\ response.status = 200) =>
    \A i, j \in 1..Len(comparacion.vinculosEncontrados) :
      LET a == comparacion.vinculosEncontrados[i]
          b == comparacion.vinculosEncontrados[j]
      IN {a.dni1, a.dni2} = {b.dni1, b.dni2} => i = j

\* C9 witness: two identifiers name each other with different labels
C9_Witness ==
  /\ cpc = "done" /\ response.status = 200
  /\ \E i, j \in 1..Len(comparacion.dnisValidados) :
       LET a == comparacion.dnisValidados[i]
           b == comparacion.dnisValidados[j]
       IN /\ a.dni # b.dni
          /\ a.esFamiliar /\ b.esFamiliar
          /\ a.dniFamiliar = b.dni /\ b.dniFamiliar = a.dni
          /\ a.parentesco # b.parentesco
  /\ Len(comparacion.vinculosEncontrados) = 1

\* C10: every copy of formatearNombre is idempotent: applied to its own
\* output it returns that output.
C10_Idempotente ==
  npc = "twice" => (util2 = util1 /\ osce2 = osce1)

\* the entries of res are for the ids of dnis, one each and in order
UnaPorUna(res, dnis) ==
  /\ Len(res) = Len(dnis)
  /\ \A i \in 1..Len(dnis) : res[i].dni = dnis[i]

\* C11: the result list of the relationship checker has exactly one entry
\* per input identifier, in input order, whatever lookups succeeded or
\* failed: the validations procesarRUC gets from validarMultiplesDNIs, and
\* dnisValidados of a comparison that passed the checks.
C11_UnaEntradaPorDni ==
  /\ (pc = "returned" /\ lookups # <<>>) =>
       UnaPorUna(resultado.validacionesDNI, resultado.dnisTotales)
  /\ (cpc = "done" /\ ValidarComparar(body) = Null) =>
       UnaPorUna(comparacion.dnisValidados, dnisUnicos)

\* C12: a batch request with more org ids than MAX_RUCS_PER_BATCH is answered
\* with the too-large error and its suggestion to split, and procesarRUC, the
\* adapters and buscarDNI are never invoked for it.
C12_LoteGrandeRechazado ==
  ( /\ spc # "idle"
    /\ "rucs" \in DOMAIN sbody
    /\ Len(sbody.rucs) > MAX_RUCS_PER_BATCH )
  => /\ spc = "done"
     /\ sresponse.status = 400
     /\ "sugerencia" \in DOMAIN sresponse
     /\ sresponse.error[1] =
          "Por limitaciones de tiempo, solo se pueden procesar maximo "
     /\ llamadas = <<>> /\ adapterCalls = <<>> /\ lookups = <<>>
     /\ pc = "idle"

\* C12 witness: a request with one org id more than the maximum was answered
C12_Witness ==
  /\ spc = "done"
  /\ "rucs" \in DOMAIN sbody
  /\ Len(sbody.rucs) = MAX_RUCS_PER_BATCH + 1
  /\ sbody.rucs[1] = RucLoteA
  /\ "sugerencia" \in DOMAIN sresponse

EsRucBienFormado(ruc) ==
  /\ SoloDigitos(Caracteres(ruc), 11)
  /\ SubSeq(Caracteres(ruc), 1, 2) \in PrefijosValidos

\* C14: no adapter and no lookup is ever invoked for a malformed
\* identifier: every org id the adapters are invoked with is exactly 11
\* digits with a prefix in {10, 15, 17, 20}, a run for any other org id
\* returns rejected without lookups, and a comparison request that holds an
\* id that is not 8 digits is answered 400 with no lookup.
C14_SinLlamadasPorMalformados ==
  /\ \A i \in 1..Len(adapterCalls) : EsRucBienFormado(adapterCalls[i])
  /\ (pc = "returned" /\ ~EsRucBienFormado(resultado.ruc)) =>
       lookups = <<>> /\ ~resultado.aprobado
  /\ ( /\ cpc # "idle"
       /\ "dnis" \in DOMAIN body
       /\ SelectSeq(body.dnis, EsDniInvalido) # <<>> )
     => clookups = <<>> /\ response.status = 400

\* C15: whatever the adapters and the lookups do, a procesarRUC call never
\* ends in an exception: it is waiting for the adapters, for the lookup of
\* an id not yet answered or for the delay after one, or it has returned a
\* result that carries a boolean aprobado; a failed adapter and a failed
\* lookup are kept in the result.
C15_SiempreDevuelve ==
  /\ pc \in {"idle", "fetching", "lookup", "sleeping", "returned"}
  /\ pc = "lookup" =>
       Len(lookups) = Len(resultados) + 1
       /\ Len(lookups) <= Len(resultado.dnisTotales)
  /\ pc = "sleeping" => Len(resultados) <= Len(resultado.dnisTotales)
  /\ pc = "returned" =>
       /\ resultado.aprobado \in BOOLEAN
       /\ datosSunat = Rejected => resultado.detallesSunat = Null
       /\ datosOsce = Rejected => resultado.detallesOsce = Null
       /\ \A dni \in fallidos :
            \E i \in 1..Len(resultado.validacionesDNI) :
              resultado.validacionesDNI[i] = EntradaError(dni)

\* C15 witness: SUNAT failed, every lookup of the ids OSCE reported failed,
\* and the run returned a result
C15_Witness ==
  /\ pc = "returned"
  /\ datosSunat = Rejected /\ datosOsce.status = "fulfilled"
  /\ Len(resultado.dnisTotales) = 2
  /\ fallidos = Elems(resultado.dnisTotales)
  /\ resultado.aprobado \in BOOLEAN

\* an adapter outcome that is settled
Settled(datos) == datos.status \in {"rejected", "fulfilled"}

\* the run went on, and ended, with exactly the ids of the adapter outcome
\* `datos`
SigueCon(datos) ==
  /\ pc \in {"lookup", "sleeping", "returned"}
  /\ resultado.dnisTotales = datos.value.dnis
  /\ lookups = SubSeq(datos.value.dnis, 1, Len(lookups))
  /\ pc = "returned" =>
       /\ lookups = datos.value.dnis
       /\ UnaPorUna(resultado.validacionesDNI, datos.value.dnis)
       /\ resultado.aprobado <=> resultado.dnisConFamiliares = <<>>

\* C16: in procesarRUC neither adapter call settles before both were
\* started, and when exactly one adapter failed and the other reported at
\* least one identifier the run goes on to the lookups and the decision with
\* exactly the identifiers of the adapter that succeeded.
C16_AmbasYSinDescartar ==
  /\ (Settled(datosSunat) \/ Settled(datosOsce)) =>
       (datosSunat # NotStarted /\ datosOsce # NotStarted)
  /\ ( /\ pc # "fetching"
       /\ datosSunat = Rejected
       /\ datosOsce.status = "fulfilled" /\ datosOsce.value.dnis # <<>> )
     => SigueCon(datosOsce)
  /\ ( /\ pc # "fetching"
       /\ datosOsce = Rejected
       /\ datosSunat.status = "fulfilled" /\ datosSunat.value.dnis # <<>> )
     => SigueCon(datosSunat)

\* C16 witness: SUNAT failed, OSCE reported two ids, both were looked up and
\* the run was decided
C16_Witness ==
  /\ pc = "returned"
  /\ datosSunat = Rejected
  /\ datosOsce.status = "fulfilled" /\ Len(datosOsce.value.dnis) = 2
  /\ lookups = datosOsce.value.dnis
  /\ ~resultado.aprobado

\* C17: once REQUEST_TIMEOUT has fired on a request in progress, procesarRUC,
\* the adapters and buscarDNI are not invoked again, and no result reaches
\* the caller, who is left with the failed connection.
C17_TimeoutAbandona ==
  [][socket = "destroyed" =>
       /\ llamadas' = llamadas
       /\ adapterCalls' = adapterCalls
       /\ Len(lookups') <= Len(lookups)
       /\ sresponse' = Null]_vars

\* C18: within one request at most one lookup is in flight and it is the
\* only one not yet answered, the lookups follow the order of the ids, and in
\* a batch procesarRUC has been invoked for an org id only when every org id
\* before it has its result.
C18_UnaConsultaALaVez ==
  /\ lookups = SubSeq(DnisDelRun, 1, Len(lookups))
  /\ Len(lookups) = Len(resultados) + (IF pc = "lookup" THEN 1 ELSE 0)
  /\ (cpc # "idle" /\ ValidarComparar(body) = Null) =>
       /\ clookups = SubSeq(dnisUnicos, 1, Len(clookups))
       /\ cpc = "lookup" => Len(clookups) = Len(comparacion.dnisValidados) + 1
       /\ cpc = "done" => Len(clookups) <= Len(comparacion.dnisValidados) + 1
  /\ spc = "batch" =>
       /\ llamadas = SubSeq(sbody.rucs, 1, Len(llamadas))
       /\ Len(llamadas) = Len(bresultados) + 1
       /\ adapterCalls = SelectSeq(llamadas, EsRucBienFormado)

\* C18 witness: in a batch, the second lookup of the second org id is in
\* flight
C18_Witness ==
  /\ spc = "batch" /\ pc = "lookup"
  /\ Len(llamadas) = 2 /\ Len(bresultados) = 1
  /\ Len(lookups) = 2 /\ Len(resultados) = 1

\* C19: in a request, every buscarDNI after the first is invoked at the end
\* of the delay, also when the lookup before it failed, by
\* validarMultiplesDNIs and by compararDNIs alike.
C19_PausaEntreConsultas ==
  [][ /\ (Len(lookups') > Len(lookups) /\ lookups # <<>>) => pc = "sleeping"
      /\ (Len(clookups') > Len(clookups) /\ clookups # <<>>) => cpc = "sleeping"
    ]_vars

\* the names the two sources give to dni, in source order: the SUNAT rows
\* first, then the OSCE ones
NombresDe(dni) ==
  LET EsDe(rep) == rep.dni = dni
      De(datos) == IF datos.status = "fulfilled"
                   THEN SelectSeq(datos.value.representantes, EsDe)
                   ELSE <<>>
      reps == De(datosSunat) \o De(datosOsce)
  IN [i \in 1..Len(reps) |-> reps[i].nombre]

\* the sources that reported dni
FuentesDe(dni) ==
  (IF dni \in IdsDe(datosSunat) THEN {"SUNAT"} ELSE {})
  \cup (IF dni \in IdsDe(datosOsce) THEN {"OSCE"} ELSE {})

\* C20: the name of every merged person is the first non-empty name its id
\* was reported with, SUNAT rows before OSCE rows, in display form, and its
\* fuentes are exactly the sources that reported the id, each once.
C20_PrimerNombreNoVacio ==
  pc = "returned" =>
    \A i \in 1..Len(resultado.personasDetalladas) :
      LET p == resultado.personasDetalladas[i]
          NoVacio(n) == n # <<>>
          noVacios == SelectSeq(NombresDe(p.dni), NoVacio)
      IN /\ p.nombre = IF noVacios = <<>> THEN <<>>
                       ELSE formatearNombre(noVacios[1])
         /\ Elems(p.fuentes) = FuentesDe(p.dni)
         /\ Len(p.fuentes) = Cardinality(FuentesDe(p.dni))

\* the representatives a settled adapter outcome reports
RepsDe(datos) ==
  IF datos.status = "fulfilled" THEN datos.value.representantes ELSE <<>>

\* the first position of x in arr
PrimeraPosicion(arr, x) ==
  CHOOSE i \in 1..Len(arr) : arr[i] = x /\ \A j \in 1..(i - 1) : arr[j] # x

\* lista holds every element of crudo once, in the order of first appearance
EnOrdenDeAparicion(lista, crudo) ==
  /\ Elems(lista) = Elems(crudo)
  /\ \A i, j \in 1..Len(lista) :
       i < j => PrimeraPosicion(crudo, lista[i]) < PrimeraPosicion(crudo, lista[j])

\* C21: once the adapter outcomes are merged, dnisTotales and the ids of
\* personasDetalladas each hold every reported person id once, in the order
\* of first appearance: the SUNAT rows first, then the OSCE ones.
C21_UnaVezEnOrden ==
  pc \in {"lookup", "sleeping", "returned"} =>
    LET crudo == DnisDe(RepsDe(datosSunat)) \o DnisDe(RepsDe(datosOsce))
    IN /\ EnOrdenDeAparicion(resultado.dnisTotales, crudo)
       /\ EnOrdenDeAparicion(DnisDe(resultado.personasDetalladas), crudo)

\* C21 witness: SUNAT reports one id in two rows, OSCE reports another id
\* and then the same one
C21_Witness ==
  /\ pc = "returned"
  /\ datosSunat.status = "fulfilled" /\ datosOsce.status = "fulfilled"
  /\ Len(datosSunat.value.representantes) = 2 /\ Len(datosSunat.value.dnis) = 1
  /\ Len(datosOsce.value.dnis) = 2
  /\ datosOsce.value.dnis[2] = datosSunat.value.dnis[1]
  /\ resultado.dnisTotales = <<datosOsce.value.dnis[2], datosOsce.value.dnis[1]>>
  /\ Len(resultado.personasDetalladas) = 2

\* C22: the links of a comparison are exactly the unordered pairs {A, B}
\* where A is an input identifier whose lookup result is found, related and
\* names B, and B is an input identifier; B's own result need not name A,
\* and both ends of every link are input identifiers.
C22_VinculoSiReclamado ==
  (cpc = "done" /\ response.status = 200) =>
    LET entradas == comparacion.dnisValidados
        vinculos == comparacion.vinculosEncontrados
        reclamados ==
          { {entradas[i].dni, entradas[i].dniFamiliar} :
              i \in { k \in 1..Len(entradas) :
                        /\ entradas[k].encontrado /\ entradas[k].esFamiliar
                        /\ entradas[k].dniFamiliar \in Elems(dnisUnicos) } }
    IN /\ {{vinculos[i].dni1, vinculos[i].dni2} : i \in 1..Len(vinculos)} = reclamados
       /\ \A i \in 1..Len(vinculos) :
            vinculos[i].dni1 \in Elems(dnisUnicos)
            /\ vinculos[i].dni2 \in Elems(dnisUnicos)

\* C22 witness: of three identifiers only the first names another, the
\* second; the second is found without a relation and the third is found
\* unrelated
C22_Witness ==
  /\ cpc = "done" /\ response.status = 200
  /\ dnisUnicos = <<DniId(1), DniId(2), DniId(3)>>
  /\ comparacion.dnisValidados[1].dniFamiliar = DniId(2)
  /\ comparacion.dnisValidados[1].parentesco = "HIJO"
  /\ ~comparacion.dnisValidados[2].esFamiliar
  /\ comparacion.dnisValidados[3].encontrado
  /\ ~comparacion.dnisValidados[3].esFamiliar
  /\ comparacion.vinculosEncontrados =
       <<[dni1 |-> DniId(1), dni2 |-> DniId(2), tipoRelacion |-> "HIJO"]>>
  /\ response.reporte.dnisConVinculos = <<DniId(1), DniId(2)>>
  /\ response.reporte.dnisSinVinculos = <<DniId(3)>>

\* no element of arr is in it twice
SinRepetir(arr) == \A i, j \in 1..Len(arr) : arr[i] = arr[j] => i = j

SinEspacios(s) ==
  LET NoEspacio(c) == c # " "
  IN SelectSeq(s, NoEspacio)

\* the white-space-delimited tokens of s
Tokens(s) ==
  LET NoVacia(p) == p # <<>>
  IN SelectSeq(Split(s, " "), NoVacia)

\* C24: formatearNombre (utils/formatNombre) returns the name upper-cased,
\* with no white space at its ends and no two spaces in a row; a name with a
\* comma keeps all its characters but the white space, in order; a name
\* without a comma is its tokens joined by one space, with ", " after the
\* second token when there are more than two.
C24_Normalizacion ==
  npc \in {"once", "twice"} =>
    LET u == ToUpperCase(nombre)
        palabras == Tokens(u)
    IN /\ \A k \in 1..Len(util1) : util1[k] # "a"
       /\ Trim(util1) = util1
       /\ CollapseRuns(util1, " ") = util1
       /\ IF \E k \in 1..Len(nombre) : nombre[k] = ","
          THEN SinEspacios(util1) = SinEspacios(u)
          ELSE util1 = IF Len(palabras) > 2
                       THEN Join(SubSeq(palabras, 1, 2), <<" ">>) \o <<",", " ">>
                              \o Join(SubSeq(palabras, 3, Len(palabras)), <<" ">>)
                       ELSE Join(palabras, <<" ">>)

\* C26: procesarRUC invokes buscarDNI only after both adapter promises have
\* settled, and nothing of the approval decision (validacionesDNI, the two
\* id lists, motivoRechazo) is written while a lookup or its sleep is still
\* under way: a run over identifiers returns with one lookup result for each.
C26_LookupsTrasAdaptadores ==
  /\ lookups # <<>> => Settled(datosSunat) /\ Settled(datosOsce)
  /\ pc \in {"lookup", "sleeping"} =>
       /\ Len(resultados) <= Len(resultado.dnisTotales)
       /\ pc = "lookup" => Len(resultados) < Len(resultado.dnisTotales)
       /\ resultado.validacionesDNI = <<>>
       /\ resultado.dnisConFamiliares = <<>>
       /\ resultado.dnisAprobados = <<>>
       /\ resultado.motivoRechazo = <<>>
       /\ resultado.aprobado = NuevoResultado(resultado.ruc).aprobado
  /\ (pc = "returned" /\ resultado.dnisTotales # <<>>) =>
       /\ Len(resultados) = Len(resultado.dnisTotales)
       /\ resultado.validacionesDNI = resultados

\* C26 witness: a run over two identifiers has returned; the first lookup
\* completed and the last one failed
C26_Witness ==
  /\ pc = "returned"
  /\ Settled(datosSunat) /\ Settled(datosOsce)
  /\ Len(lookups) = 2
  /\ lookups[1] \notin fallidos
  /\ lookups[2] \in fallidos
  /\ Len(resultado.validacionesDNI) = 2

\* C27: a result returned with aprobado = TRUE has at least one identifier,
\* and each of its identifiers has a lookup result without error that says
\* esFamiliar = false; an identifier whose lookup failed is not approved.
C27_AprobadoSoloSinErrores ==
  (pc = "returned" /\ resultado.aprobado) =>
    /\ resultado.dnisTotales # <<>>
    /\ \A i \in 1..Len(resultado.dnisTotales) :
         \E k \in 1..Len(resultado.validacionesDNI) :
           LET v == resultado.validacionesDNI[k]
           IN /\ v.dni = resultado.dnisTotales[i]
              /\ ~EsError(v)
              /\ "esFamiliar" \in DOMAIN v /\ v.esFamiliar = FALSE
    /\ \A i \in 1..Len(resultado.dnisAprobados) :
         resultado.dnisAprobados[i] \notin fallidos

\* C28: no link of a finished comparison has the same identifier at both
\* ends, whatever the lookups returned.
C28_SinAutoVinculo ==
  (cpc = "done" /\ response.status = 200) =>
    \A i \in 1..Len(comparacion.vinculosEncontrados) :
      comparacion.vinculosEncontrados[i].dni1 # comparacion.vinculosEncontrados[i].dni2

\* C29: the counters of resumen are not negative and are the lengths of the
\* three lists that generarReporte builds from the same comparison.
C29_ResumenSegunReporte ==
  (cpc = "done" /\ response.status = 200) =>
    LET resumen == comparacion.resumen
        listas == generarReporte(comparacion)
    IN /\ resumen.dnisConVinculos >= 0
       /\ resumen.dnisSinDatos >= 0
       /\ resumen.dnisSinVinculos >= 0
       /\ resumen.dnisConVinculos = Len(listas.dnisConVinculos)
       /\ resumen.dnisSinDatos = Len(listas.dnisSinDatos)
       /\ resumen.dnisSinVinculos = Len(listas.dnisSinVinculos)

\* C25: with two procesarRUC calls in flight at once on the same instance,
\* under every interleaving of their steps a call that has returned has
\* returned the result of a call running alone that is given the same
\* argument, the same two adapter outcomes and the same lookup outcomes.
C25_SinInterferencia ==
  \A i \in Runs :
    dpc[i] = "returned" => devuelto[i] = ResultadoSolo(recibido[i])

\* C25 witness: call b was made while call a was in flight, for another org
\* id; both have returned, a approved after two lookups of which one failed,
\* b rejected for a relative
C25_Witness ==
  /\ dpc["a"] = "returned" /\ dpc["b"] = "returned"
  /\ recibido["b"].solapada
  /\ recibido["a"].ruc = RucLoteB /\ recibido["b"].ruc = RucLoteA
  /\ Len(recibido["a"].validaciones) = 2
  /\ EsError(recibido["a"].validaciones[2])
  /\ devuelto["a"].aprobado
  /\ ~devuelto["b"].aprobado
  /\ devuelto["b"].dnisConFamiliares = <<DniId(1)>>

\* the entries of l that are neither error entries nor approved, as
\* detalleRechazos shows them, in the order of l
RECURSIVE RechazosDe(_)
RechazosDe(l) ==
  IF l = <<>> THEN <<>>
  ELSE LET r == Head(l)
       IN IF "error" \in DOMAIN r \/ r.aprobado THEN RechazosDe(Tail(l))
          ELSE <<[ruc |-> r.ruc, razonSocial |-> r.razonSocial,
                  motivo |-> r.motivoRechazo,
                  dnisConFamiliares |-> r.dnisConFamiliares]>> \o RechazosDe(Tail(l))

\* C30: in the report of a result list, totalProcesados is the sum of
\* aprobados, rechazados and errores; aprobados is the number of entries with
\* aprobado = true, errores the number of error entries; detalleRechazos has
\* one entry for each rejected result, in the order of the list.
C30_CuentasDelReporte ==
  reporte # Null =>
    LET n == Len(lote)
        conAprobado == {k \in 1..n : "aprobado" \in DOMAIN lote[k] /\ lote[k].aprobado}
        conError == {k \in 1..n : "error" \in DOMAIN lote[k]}
    IN /\ reporte.totalProcesados = n
       /\ reporte.totalProcesados =
            reporte.aprobados + reporte.rechazados + reporte.errores
       /\ reporte.aprobados = Cardinality(conAprobado)
       /\ reporte.errores = Cardinality(conError)
       /\ reporte.rechazados = Len(reporte.detalleRechazos)
       /\ reporte.detalleRechazos = RechazosDe(lote)

\* C30 witness: the report of a result rejected for a relative, an approved
\* result and a result rejected for want of data, of two org ids
C30_Witness ==
  /\ reporte # Null
  /\ Len(lote) = 3
  /\ \A k \in 1..3 : "error" \notin DOMAIN lote[k]
  /\ lote[1].ruc = RucLoteB /\ lote[1].dnisConFamiliares # <<>>
  /\ lote[2].aprobado
  /\ lote[3].ruc = RucLoteA /\ lote[3].motivoRechazo = MotivoSinDatos
  /\ reporte.aprobados = 1 /\ reporte.rechazados = 2 /\ reporte.errores = 0
  /\ reporte.detalleRechazos[1].ruc = RucLoteB
  /\ reporte.detalleRechazos[2].ruc = RucLoteA

=============================================================================
